---- MODULE Spec2Model ----
(***************************************************************************)
(* Substation topology core: components (five variants) with terminals,    *)
(* switchgear position and measurement, and nodes with their registry of   *)
(* components.  Modelled from src/src/component.rs and src/src/node.rs.    *)
(* Terminal, SwitchgearPosition and Measurement live in modules that are   *)
(* imported by component.rs (terminal.rs, position.rs, measurement.rs);    *)
(* their operations are modelled from the specification text.              *)
(*                                                                         *)
(* An Option<T> is a sequence of length 0 (None) or 1 (Some).  Vector and  *)
(* array index k of the code is position k+1 of a TLA+ sequence.           *)
(***************************************************************************)
EXTENDS Integers, Sequences, FiniteSets, TLC

\* ---- bounds -------------------------------------------------------------
\* node objects
NumNodes == 2
\* terminal_index arguments range over 0..MaxIndex
MaxIndex == 4
\* measurement arguments range over 0..MaxValue (0 stands for 0.0, every
\* other number for a distinct float)
MaxValue == 2
\* component objects alive in the node-registry scenario
NumMembers == 3
\* successful add_component calls recorded per behaviour
MaxClock == 3

VARIABLES
    name,         \* [node, comp]: the names given to the constructors
    kind,         \* component -> variant tag (r#type)
    terminals,    \* component -> sequence of Terminal (Option of node)
    position,     \* component -> "Open" / "Closed", "NoField" if no such field
    measurement,  \* component -> <<value>>, <<>> if the variant has no such field
    children,     \* node -> sequence of components (Node.children)
    call,         \* the call made last: [op, c, n, i, v]
    ret,          \* what it returned: [res, info]
    lastSwitch,   \* history: component -> last successful open/close
    lastUpdate,   \* history: component -> <<argument of the last update>>
    stamp,        \* history: node -> component -> clock of its last successful add
    clock         \* history: number of successful add_component calls

vars == <<name, kind, terminals, position, measurement, children, call, ret,
          lastSwitch, lastUpdate, stamp, clock>>

Nodes == 1..NumNodes
Indices == 0..MaxIndex
Values == 0..MaxValue
Components == DOMAIN kind

\* enum ComponentType
ComponentType == <<"CircuitBreaker", "Disconnector", "EarthingSwitch",
                   "VoltageTransformer", "Transformer">>
Variants == {ComponentType[k] : k \in 1..Len(ComponentType)}

\* ---- leaf entities ------------------------------------------------------
Terminal_new == <<>>

Terminal_get_node(t) ==
    IF t = <<>> THEN [res |-> "NotConnected", node |-> <<>>]
    ELSE [res |-> "Ok", node |-> t]

Terminal_connect(t, node) ==
    IF t # <<>> THEN [res |-> "AlreadyConnected", t |-> t]
    ELSE [res |-> "Ok", t |-> <<node>>]

Terminal_disconnect(t) ==
    IF t = <<>> THEN [res |-> "NotConnected", t |-> t]
    ELSE [res |-> "Ok", t |-> <<>>]

SwitchgearPosition_new == "Open"

SwitchgearPosition_open(p) ==
    IF p = "Open" THEN [res |-> "AlreadyOpen", p |-> p]
    ELSE [res |-> "Ok", p |-> "Open"]

SwitchgearPosition_close(p) ==
    IF p = "Closed" THEN [res |-> "AlreadyClosed", p |-> p]
    ELSE [res |-> "Ok", p |-> "Closed"]

Measurement_new == <<0>>

Measurement_update(m, v) == <<v>>

Measurement_value(m) == m[1]

\* ---- constructors -------------------------------------------------------
\* length of the terminals array of each struct
TerminalCount(k) ==
    CASE k = "CircuitBreaker" -> 2
      [] k = "Disconnector" -> 2
      [] k = "EarthingSwitch" -> 1
      [] k = "VoltageTransformer" -> 1
      [] k = "Transformer" -> 3

\* the structs that have a position field
HasPositionField(k) == k \in {"CircuitBreaker", "Disconnector", "EarthingSwitch"}

\* the struct that has a measurement field
HasMeasurementField(k) == k = "VoltageTransformer"

new_terminals(k) == [j \in 1..TerminalCount(k) |-> Terminal_new]

new_position(k) == IF HasPositionField(k) THEN SwitchgearPosition_new ELSE "NoField"

new_measurement(k) == IF HasMeasurementField(k) THEN Measurement_new ELSE <<>>

Node_new == <<>>

NoCall == [op |-> "none", c |-> 0, n |-> 0, i |-> 0, v |-> 0]

Ok == [res |-> "Ok", info |-> <<>>]

Err(e, info) == [res |-> e, info |-> info]

\* ---- RefCell ------------------------------------------------------------
\* The cells: one per terminal, per position, per measurement, per children.
TerminalCell(c, i) == <<"terminal", c, i>>
PositionCell(c) == <<"position", c, 0>>
MeasurementCell(c) == <<"measurement", c, 0>>
ChildrenCell(n) == <<"children", n, 0>>

\* A call is a sequence of borrow events; no Ref or RefMut outlives a call.
Borrow(cell) == <<[ev |-> "borrow", cell |-> cell]>>
BorrowMut(cell) == <<[ev |-> "borrow_mut", cell |-> cell]>>
Drop(cell) == <<[ev |-> "drop", cell |-> cell]>>
DropMut(cell) == <<[ev |-> "drop_mut", cell |-> cell]>>

\* Ref / RefMut of cell alive just before event k of the trace
Held(trace, k, cell, acquire, release) ==
    Cardinality({j \in 1..(k - 1) : trace[j] = [ev |-> acquire, cell |-> cell]})
    - Cardinality({j \in 1..(k - 1) : trace[j] = [ev |-> release, cell |-> cell]})

\* RefCell::borrow_mut panics while any borrow of the cell is alive,
\* RefCell::borrow while a mutable one is
Panics(trace) ==
    \E k \in 1..Len(trace) :
        LET shared == Held(trace, k, trace[k].cell, "borrow", "drop")
            mutable == Held(trace, k, trace[k].cell, "borrow_mut", "drop_mut")
        IN \/ trace[k].ev = "borrow_mut" /\ shared + mutable > 0
           \/ trace[k].ev = "borrow" /\ mutable > 0

\* a call that panicked returns nothing
Panic == [res |-> "Panic", info |-> <<>>]

\* ---- Component: accessors ----------------------------------------------
\* fn name(&self) of a component
Component_name(c) == name.comp[c]

\* fn name(&self) of a node
Node_name(n) == name.node[n]

\* mutant: Transformer::terminal pasted from a variant with two terminals
terminal_two_only(c, index) ==
    IF index < (IF kind[c] = "Transformer" THEN 2 ELSE Len(terminals[c]))
    THEN [res |-> "Ok", t |-> terminals[c][index + 1], info |-> <<>>]
    ELSE [res |-> "TerminalIndexOutOfRange", t |-> <<>>,
          info |-> <<index, Len(terminals[c])>>]

\* fn terminal(&self, index): self.terminals.get(index)
terminal(c, index) ==
    IF index < Len(terminals[c])
    THEN [res |-> "Ok", t |-> terminals[c][index + 1], info |-> <<>>]
    ELSE [res |-> "TerminalIndexOutOfRange", t |-> <<>>,
          info |-> <<index, Len(terminals[c])>>]

\* mutant: VoltageTransformer given the position override as well
Component_position_vt_override(c) ==
    IF kind[c] # "Transformer"
    THEN [res |-> "Ok", p |-> position[c]]
    ELSE [res |-> "NoPositionCapability", p |-> "NoField"]

\* fn position(&self): the default fails, three variants override it
Component_position(c) ==
    IF HasPositionField(kind[c])
    THEN [res |-> "Ok", p |-> position[c]]
    ELSE [res |-> "NoPositionCapability", p |-> "NoField"]

\* ---- Component: connect -------------------------------------------------
\* mutant: the loop stops at terminal_index instead of skipping it
RECURSIVE connect_scan_break(_, _, _, _)
connect_scan_break(c, node, terminal_index, i) ==
    IF i = terminal_index
    THEN <<>>
    ELSE LET r == terminal(c, i) IN
         IF r.res # "Ok" THEN <<>>
         ELSE LET g == Terminal_get_node(r.t) IN
              IF g.res = "Ok" /\ g.node = <<node>> THEN <<i>>
              ELSE connect_scan_break(c, node, terminal_index, i + 1)

\* mutant: the node held by a terminal is compared by name
RECURSIVE connect_scan_by_name(_, _, _, _)
connect_scan_by_name(c, node, terminal_index, i) ==
    IF i = terminal_index
    THEN connect_scan_by_name(c, node, terminal_index, i + 1)
    ELSE LET r == terminal(c, i) IN
         IF r.res # "Ok" THEN <<>>
         ELSE LET g == Terminal_get_node(r.t) IN
              IF g.res = "Ok" /\ Node_name(g.node[1]) = Node_name(node) THEN <<i>>
              ELSE connect_scan_by_name(c, node, terminal_index, i + 1)

\* mutant: the terminals of every component are searched for the node
RECURSIVE connect_scan_global(_, _, _, _)
connect_scan_global(c, node, terminal_index, i) ==
    IF \E d \in DOMAIN kind \ {c} : \E j \in 1..Len(terminals[d]) :
          terminals[d][j] = <<node>>
    THEN <<0>>
    ELSE IF i = terminal_index
    THEN connect_scan_global(c, node, terminal_index, i + 1)
    ELSE LET r == terminal(c, i) IN
         IF r.res # "Ok" THEN <<>>
         ELSE LET g == Terminal_get_node(r.t) IN
              IF g.res = "Ok" /\ g.node = <<node>> THEN <<i>>
              ELSE connect_scan_global(c, node, terminal_index, i + 1)

\* the loop of connect: visits i = 0, 1, ... except terminal_index, stops at
\* the first index that has no terminal; <<i>> when terminal i holds node
RECURSIVE connect_scan(_, _, _, _)
connect_scan(c, node, terminal_index, i) ==
    IF i = terminal_index
    THEN connect_scan(c, node, terminal_index, i + 1)
    ELSE LET r == terminal(c, i) IN
         IF r.res # "Ok" THEN <<>>
         ELSE LET g == Terminal_get_node(r.t) IN
              IF g.res = "Ok" /\ g.node = <<node>> THEN <<i>>
              ELSE connect_scan(c, node, terminal_index, i + 1)

\* mutant: terminal_index is validated before the other terminals are scanned
connect_result_index_first(c, node, terminal_index) ==
    LET r == terminal(c, terminal_index) IN
    IF r.res # "Ok"
    THEN [ret |-> Err(r.res, r.info), ts |-> terminals[c]]
    ELSE LET dup == connect_scan(c, node, terminal_index, 0) IN
         IF dup # <<>>
         THEN [ret |-> Err("DuplicateNodeConnection", dup), ts |-> terminals[c]]
         ELSE LET k == Terminal_connect(r.t, node) IN
              IF k.res # "Ok"
              THEN [ret |-> Err(k.res, <<>>), ts |-> terminals[c]]
              ELSE [ret |-> Ok,
                    ts |-> [terminals[c] EXCEPT ![terminal_index + 1] = k.t]]

\* mutant: the terminal is connected before the other terminals are scanned
connect_result_terminal_first(c, node, terminal_index) ==
    LET r == terminal(c, terminal_index) IN
    IF r.res = "Ok" /\ Terminal_connect(r.t, node).res # "Ok"
    THEN [ret |-> Err(Terminal_connect(r.t, node).res, <<>>), ts |-> terminals[c]]
    ELSE LET dup == connect_scan(c, node, terminal_index, 0) IN
         IF dup # <<>>
         THEN [ret |-> Err("DuplicateNodeConnection", dup), ts |-> terminals[c]]
         ELSE IF r.res # "Ok"
         THEN [ret |-> Err(r.res, r.info), ts |-> terminals[c]]
         ELSE [ret |-> Ok,
               ts |-> [terminals[c] EXCEPT
                          ![terminal_index + 1] = Terminal_connect(r.t, node).t]]

\* mutant: the result of the terminal's connect is dropped
connect_result_unchecked(c, node, terminal_index) ==
    LET dup == connect_scan(c, node, terminal_index, 0) IN
    IF dup # <<>>
    THEN [ret |-> Err("DuplicateNodeConnection", dup), ts |-> terminals[c]]
    ELSE LET r == terminal(c, terminal_index) IN
         IF r.res # "Ok"
         THEN [ret |-> Err(r.res, r.info), ts |-> terminals[c]]
         ELSE [ret |-> Ok,
               ts |-> [terminals[c] EXCEPT
                          ![terminal_index + 1] = Terminal_connect(r.t, node).t]]

\* mutant: the terminal is connected first and the other terminals are
\* scanned afterwards
connect_result_connects_first(c, node, terminal_index) ==
    LET r == terminal(c, terminal_index) IN
    IF r.res # "Ok"
    THEN [ret |-> Err(r.res, r.info), ts |-> terminals[c]]
    ELSE LET k == Terminal_connect(r.t, node)
             dup == connect_scan(c, node, terminal_index, 0)
         IN IF k.res # "Ok"
            THEN [ret |-> Err(k.res, <<>>), ts |-> terminals[c]]
            ELSE [ret |-> IF dup # <<>> THEN Err("DuplicateNodeConnection", dup)
                          ELSE Ok,
                  ts |-> [terminals[c] EXCEPT ![terminal_index + 1] = k.t]]

\* mutant: the other terminals are not scanned at all
connect_result_unscanned(c, node, terminal_index) ==
    LET r == terminal(c, terminal_index) IN
    IF r.res # "Ok"
    THEN [ret |-> Err(r.res, r.info), ts |-> terminals[c]]
    ELSE LET k == Terminal_connect(r.t, node) IN
         IF k.res # "Ok"
         THEN [ret |-> Err(k.res, <<>>), ts |-> terminals[c]]
         ELSE [ret |-> Ok,
               ts |-> [terminals[c] EXCEPT ![terminal_index + 1] = k.t]]

\* mutant: the node is stored in the terminal whatever it holds
connect_result_overwrite(c, node, terminal_index) ==
    LET dup == connect_scan(c, node, terminal_index, 0) IN
    IF dup # <<>>
    THEN [ret |-> Err("DuplicateNodeConnection", dup), ts |-> terminals[c]]
    ELSE LET r == terminal(c, terminal_index) IN
         IF r.res # "Ok"
         THEN [ret |-> Err(r.res, r.info), ts |-> terminals[c]]
         ELSE [ret |-> Ok,
               ts |-> [terminals[c] EXCEPT ![terminal_index + 1] = <<node>>]]

\* what connect returns and the terminals it leaves
connect_result(c, node, terminal_index) ==
    LET dup == connect_scan(c, node, terminal_index, 0) IN
    IF dup # <<>>
    THEN [ret |-> Err("DuplicateNodeConnection", dup), ts |-> terminals[c]]
    ELSE LET r == terminal(c, terminal_index) IN
         IF r.res # "Ok"
         THEN [ret |-> Err(r.res, r.info), ts |-> terminals[c]]
         ELSE LET k == Terminal_connect(r.t, node) IN
              IF k.res # "Ok"
              THEN [ret |-> Err(k.res, <<>>), ts |-> terminals[c]]
              ELSE [ret |-> Ok,
                    ts |-> [terminals[c] EXCEPT ![terminal_index + 1] = k.t]]

\* the borrows of the loop of connect: t.borrow() lives for one if-let
RECURSIVE connect_scan_borrows(_, _, _, _)
connect_scan_borrows(c, node, terminal_index, i) ==
    IF i = terminal_index
    THEN connect_scan_borrows(c, node, terminal_index, i + 1)
    ELSE LET r == terminal(c, i) IN
         IF r.res # "Ok" THEN <<>>
         ELSE LET g == Terminal_get_node(r.t)
                  b == Borrow(TerminalCell(c, i)) \o Drop(TerminalCell(c, i))
              IN IF g.res = "Ok" /\ g.node = <<node>> THEN b
                 ELSE b \o connect_scan_borrows(c, node, terminal_index, i + 1)

\* the borrows of connect: the loop, then t.borrow_mut().connect(node)
connect_borrows(c, node, terminal_index) ==
    LET scan == connect_scan_borrows(c, node, terminal_index, 0) IN
    IF connect_scan(c, node, terminal_index, 0) # <<>> THEN scan
    ELSE IF terminal(c, terminal_index).res # "Ok" THEN scan
    ELSE scan \o BorrowMut(TerminalCell(c, terminal_index))
              \o DropMut(TerminalCell(c, terminal_index))

connect_outcome(c, node, terminal_index) ==
    IF Panics(connect_borrows(c, node, terminal_index))
    THEN [ret |-> Panic, ts |-> terminals[c]]
    ELSE connect_result(c, node, terminal_index)

\* mutant: a successful connect also registers the component with the node
connect_linked(c, node, terminal_index) ==
    LET o == connect_outcome(c, node, terminal_index) IN
    /\ terminals' = [terminals EXCEPT ![c] = o.ts]
    /\ children' = IF /\ o.ret.res = "Ok"
                      /\ \A j \in 1..Len(children[node]) : children[node][j] # c
                   THEN [children EXCEPT ![node] = Append(children[node], c)]
                   ELSE children
    /\ call' = [op |-> "connect", c |-> c, n |-> node, i |-> terminal_index, v |-> 0]
    /\ ret' = o.ret
    /\ UNCHANGED <<name, kind, position, measurement, lastSwitch, lastUpdate,
                   stamp, clock>>

connect(c, node, terminal_index) ==
    LET o == connect_outcome(c, node, terminal_index) IN
    /\ terminals' = [terminals EXCEPT ![c] = o.ts]
    /\ call' = [op |-> "connect", c |-> c, n |-> node, i |-> terminal_index, v |-> 0]
    /\ ret' = o.ret
    /\ UNCHANGED <<name, kind, position, measurement, children, lastSwitch, lastUpdate,
                   stamp, clock>>

\* ---- Component: disconnect ----------------------------------------------
\* mutant: the terminal that holds the node is found but not disconnected
RECURSIVE disconnect_scan_keeps(_, _, _)
disconnect_scan_keeps(c, node, i) ==
    LET r == terminal(c, i) IN
    IF r.res # "Ok"
    THEN [ret |-> Err("NotConnectedToNode", <<>>), ts |-> terminals[c]]
    ELSE LET g == Terminal_get_node(r.t) IN
         IF g.res = "Ok" /\ g.node = <<node>>
         THEN [ret |-> Ok, ts |-> terminals[c]]
         ELSE disconnect_scan_keeps(c, node, i + 1)

\* the loop of disconnect: ascending from i, the first terminal that holds
\* node is disconnected and its result returned
RECURSIVE disconnect_scan(_, _, _)
disconnect_scan(c, node, i) ==
    LET r == terminal(c, i) IN
    IF r.res # "Ok"
    THEN [ret |-> Err("NotConnectedToNode", <<>>), ts |-> terminals[c]]
    ELSE LET g == Terminal_get_node(r.t) IN
         IF g.res = "Ok" /\ g.node = <<node>>
         THEN LET d == Terminal_disconnect(r.t) IN
              [ret |-> IF d.res = "Ok" THEN Ok ELSE Err(d.res, <<>>),
               ts |-> [terminals[c] EXCEPT ![i + 1] = d.t]]
         ELSE disconnect_scan(c, node, i + 1)

\* mutant: the loop starts at terminal 1
disconnect_result_from_one(c, node) == disconnect_scan(c, node, 1)

disconnect_result(c, node) == disconnect_scan(c, node, 0)

\* the borrows of disconnect: let mut t = t.borrow_mut() lives for one
\* round of the loop, get_node and disconnect go through it
RECURSIVE disconnect_borrows(_, _, _)
disconnect_borrows(c, node, i) ==
    LET r == terminal(c, i) IN
    IF r.res # "Ok" THEN <<>>
    ELSE LET g == Terminal_get_node(r.t)
             b == BorrowMut(TerminalCell(c, i)) \o DropMut(TerminalCell(c, i))
         IN IF g.res = "Ok" /\ g.node = <<node>> THEN b
            ELSE b \o disconnect_borrows(c, node, i + 1)

disconnect_outcome(c, node) ==
    IF Panics(disconnect_borrows(c, node, 0))
    THEN [ret |-> Panic, ts |-> terminals[c]]
    ELSE disconnect_result(c, node)

\* mutant: a successful disconnect also opens the switch
disconnect_opens(c, node) ==
    LET o == disconnect_outcome(c, node) IN
    /\ terminals' = [terminals EXCEPT ![c] = o.ts]
    /\ position' = IF o.ret.res = "Ok" /\ position[c] = "Closed"
                   THEN [position EXCEPT ![c] = "Open"]
                   ELSE position
    /\ call' = [op |-> "disconnect", c |-> c, n |-> node, i |-> 0, v |-> 0]
    /\ ret' = o.ret
    /\ UNCHANGED <<name, kind, measurement, children, lastSwitch, lastUpdate,
                   stamp, clock>>

disconnect(c, node) ==
    LET o == disconnect_outcome(c, node) IN
    /\ terminals' = [terminals EXCEPT ![c] = o.ts]
    /\ call' = [op |-> "disconnect", c |-> c, n |-> node, i |-> 0, v |-> 0]
    /\ ret' = o.ret
    /\ UNCHANGED <<name, kind, position, measurement, children, lastSwitch, lastUpdate,
                   stamp, clock>>

\* ---- Component: open / close --------------------------------------------
\* mutant: open delegates to the position's close
open_result_closes(c) ==
    LET pos == Component_position(c) IN
    IF pos.res # "Ok" THEN [ret |-> Err(pos.res, <<>>), p |-> position[c]]
    ELSE LET o == SwitchgearPosition_close(pos.p) IN
         [ret |-> IF o.res = "Ok" THEN Ok ELSE Err(o.res, <<>>), p |-> o.p]

open_result(c) ==
    LET pos == Component_position(c) IN
    IF pos.res # "Ok" THEN [ret |-> Err(pos.res, <<>>), p |-> position[c]]
    ELSE LET o == SwitchgearPosition_open(pos.p) IN
         [ret |-> IF o.res = "Ok" THEN Ok ELSE Err(o.res, <<>>), p |-> o.p]

close_result(c) ==
    LET pos == Component_position(c) IN
    IF pos.res # "Ok" THEN [ret |-> Err(pos.res, <<>>), p |-> position[c]]
    ELSE LET o == SwitchgearPosition_close(pos.p) IN
         [ret |-> IF o.res = "Ok" THEN Ok ELSE Err(o.res, <<>>), p |-> o.p]

\* the borrows of open and of close: pos.borrow_mut()
switch_borrows(c) ==
    IF Component_position(c).res # "Ok" THEN <<>>
    ELSE BorrowMut(PositionCell(c)) \o DropMut(PositionCell(c))

open_outcome(c) ==
    IF Panics(switch_borrows(c)) THEN [ret |-> Panic, p |-> position[c]]
    ELSE open_result(c)

close_outcome(c) ==
    IF Panics(switch_borrows(c)) THEN [ret |-> Panic, p |-> position[c]]
    ELSE close_result(c)

open(c) ==
    LET o == open_outcome(c) IN
    /\ position' = [position EXCEPT ![c] = o.p]
    /\ call' = [op |-> "open", c |-> c, n |-> 0, i |-> 0, v |-> 0]
    /\ ret' = o.ret
    /\ lastSwitch' = IF o.ret.res = "Ok" THEN [lastSwitch EXCEPT ![c] = "open"]
                     ELSE lastSwitch
    /\ UNCHANGED <<name, kind, terminals, measurement, children, lastUpdate, stamp, clock>>

close(c) ==
    LET o == close_outcome(c) IN
    /\ position' = [position EXCEPT ![c] = o.p]
    /\ call' = [op |-> "close", c |-> c, n |-> 0, i |-> 0, v |-> 0]
    /\ ret' = o.ret
    /\ lastSwitch' = IF o.ret.res = "Ok" THEN [lastSwitch EXCEPT ![c] = "close"]
                     ELSE lastSwitch
    /\ UNCHANGED <<name, kind, terminals, measurement, children, lastUpdate, stamp, clock>>

\* ---- Component: update / value ------------------------------------------
\* mutant: update reports success without storing the value
update_result_dropped(c, v) ==
    IF kind[c] = "VoltageTransformer"
    THEN [ret |-> Ok, m |-> measurement[c]]
    ELSE [ret |-> Err("NoMeasurementCapability", <<>>), m |-> measurement[c]]

\* the default fails; VoltageTransformer overrides both
update_result(c, v) ==
    IF kind[c] = "VoltageTransformer"
    THEN [ret |-> Ok, m |-> Measurement_update(measurement[c], v)]
    ELSE [ret |-> Err("NoMeasurementCapability", <<>>), m |-> measurement[c]]

value_result(c) ==
    IF kind[c] = "VoltageTransformer"
    THEN [res |-> "Ok", info |-> <<Measurement_value(measurement[c])>>]
    ELSE Err("NoMeasurementCapability", <<>>)

\* the borrows of update: self.measurement.borrow_mut()
update_borrows(c) ==
    IF kind[c] = "VoltageTransformer"
    THEN BorrowMut(MeasurementCell(c)) \o DropMut(MeasurementCell(c))
    ELSE <<>>

\* the borrows of value: self.measurement.borrow()
value_borrows(c) ==
    IF kind[c] = "VoltageTransformer"
    THEN Borrow(MeasurementCell(c)) \o Drop(MeasurementCell(c))
    ELSE <<>>

update_outcome(c, v) ==
    IF Panics(update_borrows(c)) THEN [ret |-> Panic, m |-> measurement[c]]
    ELSE update_result(c, v)

value_outcome(c) ==
    IF Panics(value_borrows(c)) THEN Panic ELSE value_result(c)

update(c, v) ==
    LET o == update_outcome(c, v) IN
    /\ measurement' = [measurement EXCEPT ![c] = o.m]
    /\ call' = [op |-> "update", c |-> c, n |-> 0, i |-> 0, v |-> v]
    /\ ret' = o.ret
    /\ lastUpdate' = IF o.ret.res = "Ok" THEN [lastUpdate EXCEPT ![c] = <<v>>]
                     ELSE lastUpdate
    /\ UNCHANGED <<name, kind, terminals, position, children, lastSwitch, stamp, clock>>

value(c) ==
    /\ call' = [op |-> "value", c |-> c, n |-> 0, i |-> 0, v |-> 0]
    /\ ret' = value_outcome(c)
    /\ UNCHANGED <<name, kind, terminals, position, measurement, children, lastSwitch,
                   lastUpdate, stamp, clock>>

\* the accessors called on their own
call_position(c) ==
    /\ call' = [op |-> "position", c |-> c, n |-> 0, i |-> 0, v |-> 0]
    /\ ret' = LET pos == Component_position(c) IN
              IF pos.res = "Ok" THEN Ok ELSE Err(pos.res, <<>>)
    /\ UNCHANGED <<name, kind, terminals, position, measurement, children, lastSwitch,
                   lastUpdate, stamp, clock>>

call_terminal(c, index) ==
    /\ call' = [op |-> "terminal", c |-> c, n |-> 0, i |-> index, v |-> 0]
    /\ ret' = LET r == terminal(c, index) IN
              IF r.res = "Ok" THEN Ok ELSE Err(r.res, r.info)
    /\ UNCHANGED <<name, kind, terminals, position, measurement, children, lastSwitch,
                   lastUpdate, stamp, clock>>

\* ---- Node ---------------------------------------------------------------
\* self.children.borrow().iter().position(|x| Rc::ptr_eq(x, &c))
RECURSIVE iter_position(_, _, _)
iter_position(members, c, i) ==
    IF i >= Len(members) THEN <<>>
    ELSE IF members[i + 1] = c THEN <<i>>
    ELSE iter_position(members, c, i + 1)

\* mutant: Vec::swap_remove(i), the last member takes the place of the removed
vec_swap_remove(members, i) ==
    [j \in 1..(Len(members) - 1) |->
        IF j = i + 1 THEN members[Len(members)] ELSE members[j]]

\* Vec::remove(i)
vec_remove(members, i) ==
    [j \in 1..(Len(members) - 1) |-> IF j <= i THEN members[j] ELSE members[j + 1]]

\* mutant: the component is pushed whether or not it is already a member
add_component_result_unchecked(n, c) ==
    [ret |-> Ok, members |-> Append(children[n], c)]

add_component_result(n, c) ==
    LET index == iter_position(children[n], c, 0) IN
    IF index # <<>>
    THEN [ret |-> Err("DuplicateComponent", <<>>), members |-> children[n]]
    ELSE [ret |-> Ok, members |-> Append(children[n], c)]

remove_component_result(n, c) ==
    LET index == iter_position(children[n], c, 0) IN
    IF index # <<>>
    THEN [ret |-> Ok, members |-> vec_remove(children[n], index[1])]
    ELSE [ret |-> Err("ComponentNotFound", <<>>), members |-> children[n]]

\* mutant: the search is the scrutinee of the match, its Ref lives until
\* the match ends
add_component_borrows_scrutinee(n, c) ==
    IF iter_position(children[n], c, 0) # <<>>
    THEN Borrow(ChildrenCell(n)) \o Drop(ChildrenCell(n))
    ELSE Borrow(ChildrenCell(n)) \o BorrowMut(ChildrenCell(n))
         \o DropMut(ChildrenCell(n)) \o Drop(ChildrenCell(n))

\* the borrows of add_component: the Ref of the search ends with the let
\* statement, before the match pushes through borrow_mut
add_component_borrows(n, c) ==
    LET search == Borrow(ChildrenCell(n)) \o Drop(ChildrenCell(n)) IN
    IF iter_position(children[n], c, 0) # <<>> THEN search
    ELSE search \o BorrowMut(ChildrenCell(n)) \o DropMut(ChildrenCell(n))

\* the borrows of remove_component: as in add_component
remove_component_borrows(n, c) ==
    LET search == Borrow(ChildrenCell(n)) \o Drop(ChildrenCell(n)) IN
    IF iter_position(children[n], c, 0) = <<>> THEN search
    ELSE search \o BorrowMut(ChildrenCell(n)) \o DropMut(ChildrenCell(n))

add_component_outcome(n, c) ==
    IF Panics(add_component_borrows(n, c))
    THEN [ret |-> Panic, members |-> children[n]]
    ELSE add_component_result(n, c)

remove_component_outcome(n, c) ==
    IF Panics(remove_component_borrows(n, c))
    THEN [ret |-> Panic, members |-> children[n]]
    ELSE remove_component_result(n, c)

add_component(n, c) ==
    LET o == add_component_outcome(n, c) IN
    /\ o.ret.res = "Ok" => clock < MaxClock
    /\ children' = [children EXCEPT ![n] = o.members]
    /\ call' = [op |-> "add_component", c |-> c, n |-> n, i |-> 0, v |-> 0]
    /\ ret' = o.ret
    /\ clock' = IF o.ret.res = "Ok" THEN clock + 1 ELSE clock
    /\ stamp' = IF o.ret.res = "Ok" THEN [stamp EXCEPT ![n][c] = clock + 1] ELSE stamp
    /\ UNCHANGED <<name, kind, terminals, position, measurement, lastSwitch, lastUpdate>>

remove_component(n, c) ==
    LET o == remove_component_outcome(n, c) IN
    /\ children' = [children EXCEPT ![n] = o.members]
    /\ call' = [op |-> "remove_component", c |-> c, n |-> n, i |-> 0, v |-> 0]
    /\ ret' = o.ret
    /\ stamp' = IF o.ret.res = "Ok" THEN [stamp EXCEPT ![n][c] = 0] ELSE stamp
    /\ UNCHANGED <<name, kind, terminals, position, measurement, lastSwitch, lastUpdate,
                   clock>>

\* ---- specifications -----------------------------------------------------
\* names as the tests give them: every node and every component its own
OwnNames(kinds) ==
    [node |-> [n \in Nodes |-> <<"node", n>>],
     comp |-> [c \in DOMAIN kinds |-> <<"component", c>>]]

\* every node constructed with one name, every component with one name
SameNames(kinds) ==
    [node |-> [n \in Nodes |-> <<"node", 0>>],
     comp |-> [c \in DOMAIN kinds |-> <<"component", 0>>]]

\* the state right after the constructors, for components of the given kinds
\* and the given names
ConstructedNamed(kinds, names) ==
    /\ name = names
    /\ kind = kinds
    /\ terminals = [c \in DOMAIN kinds |-> new_terminals(kinds[c])]
    /\ position = [c \in DOMAIN kinds |-> new_position(kinds[c])]
    /\ measurement = [c \in DOMAIN kinds |-> new_measurement(kinds[c])]
    /\ children = [n \in Nodes |-> Node_new]
    /\ call = NoCall
    /\ ret = Ok
    /\ lastSwitch = [c \in DOMAIN kinds |-> "none"]
    /\ lastUpdate = [c \in DOMAIN kinds |-> <<>>]
    /\ stamp = [n \in Nodes |-> [c \in DOMAIN kinds |-> 0]]
    /\ clock = 0

Constructed(kinds) == ConstructedNamed(kinds, OwnNames(kinds))

\* component scenario: one component of any variant and the calls of the
\* Component trait on it (a method of the trait reaches the fields of self
\* and nothing of another component)
Init == \E k \in Variants : Constructed(<<k>>)

Next ==
    \/ \E c \in Components, n \in Nodes, i \in Indices : connect(c, n, i)
    \/ \E c \in Components, n \in Nodes : disconnect(c, n)
    \/ \E c \in Components : open(c)
    \/ \E c \in Components : close(c)
    \/ \E c \in Components, v \in Values : update(c, v)
    \/ \E c \in Components : value(c)
    \/ \E c \in Components : call_position(c)
    \/ \E c \in Components, i \in Indices : call_terminal(c, i)

Spec == Init /\ [][Next]_vars

\* node scenario: NumMembers components (cb, ds, es, vt, tf, cb, ...) and
\* the calls of Node
InitNode ==
    Constructed([c \in 1..NumMembers |->
                    ComponentType[((c - 1) % Len(ComponentType)) + 1]])

NextNode ==
    \/ \E n \in Nodes, c \in Components : add_component(n, c)
    \/ \E n \in Nodes, c \in Components : remove_component(n, c)

SpecNode == InitNode /\ [][NextNode]_vars

\* graph scenario: one component of any variant, the calls of the Component
\* trait on it with any node, and the registry of node 1
InitGraph == \E k \in Variants : Constructed(<<k>>)

NextGraph ==
    \/ \E c \in Components, n \in Nodes, i \in Indices : connect(c, n, i)
    \/ \E c \in Components, n \in Nodes : disconnect(c, n)
    \/ \E c \in Components : open(c)
    \/ \E c \in Components : close(c)
    \/ \E c \in Components, v \in Values : update(c, v)
    \/ \E c \in Components : value(c)
    \/ \E c \in Components : call_position(c)
    \/ \E c \in Components, i \in Indices : call_terminal(c, i)
    \/ \E c \in Components : add_component(1, c)
    \/ \E c \in Components : remove_component(1, c)

SpecGraph == InitGraph /\ [][NextGraph]_vars

\* pair scenario: two components of any variants, node 1, and the calls that
\* change a component
InitPair == \E k1 \in Variants, k2 \in Variants : Constructed(<<k1, k2>>)

NextPair ==
    \/ \E c \in Components, i \in Indices : connect(c, 1, i)
    \/ \E c \in Components : disconnect(c, 1)
    \/ \E c \in Components : open(c)
    \/ \E c \in Components : close(c)
    \/ \E c \in Components, v \in Values : update(c, v)

SpecPair == InitPair /\ [][NextPair]_vars

\* namesake scenario: two components of one variant constructed with the
\* same name, nodes constructed with the same name; component 1 is wired to
\* the nodes, node 1 registers the components
InitNames == \E k \in Variants : ConstructedNamed(<<k, k>>, SameNames(<<k, k>>))

NextNames ==
    \/ \E n \in Nodes, i \in Indices : connect(1, n, i)
    \/ \E n \in Nodes : disconnect(1, n)
    \/ \E c \in Components : add_component(1, c)
    \/ \E c \in Components : remove_component(1, c)

SpecNames == InitNames /\ [][NextNames]_vars

TypeOK ==
    /\ kind \in [Components -> Variants]
    /\ \A c \in Components :
          /\ Len(terminals[c]) = TerminalCount(kind[c])
          /\ \A j \in 1..Len(terminals[c]) :
                terminals[c][j] \in {<<>>} \cup {<<n>> : n \in Nodes}
          /\ position[c] \in {"Open", "Closed", "NoField"}
          /\ measurement[c] \in {<<>>} \cup {<<v>> : v \in Values}
    /\ \A n \in Nodes : \A j \in 1..Len(children[n]) : children[n][j] \in Components
    /\ clock \in 0..MaxClock

\* ---- properties ----------------------------------------------------------
\* the program state, without the record of the last call and the history
state == <<name, kind, terminals, position, measurement, children>>

\* terminals of component c other than index i that hold node n
OtherHolders(c, n, i) ==
    {j \in 0..(Len(terminals[c]) - 1) : j # i /\ terminals[c][j + 1] = <<n>>}

\* terminals of component c that hold node n
Holders(c, n) == {j \in 0..(Len(terminals[c]) - 1) : terminals[c][j + 1] = <<n>>}

\* the step is a call of op
Calls(op) == call'.op = op

\* C1 as claimed: connect with terminal_index at or beyond the terminal
\* count fails with TerminalIndexOutOfRange, whatever the terminals hold, and
\* changes no terminal.
C1_IndexCheckedFirst ==
    [][(Calls("connect") /\ call'.i >= Len(terminals[call'.c]))
          => (ret'.res = "TerminalIndexOutOfRange" /\ terminals' = terminals)]_vars

\* C1 amended: connect with terminal_index at or beyond the terminal count
\* always fails and changes no terminal; the error is DuplicateNodeConnection
\* (naming the lowest terminal that holds the node) when a terminal of the
\* component already holds the node, and TerminalIndexOutOfRange (naming the
\* index and the terminal count) otherwise.
C1_OutOfRangeFails ==
    [][(Calls("connect") /\ call'.i >= Len(terminals[call'.c]))
          => LET c == call'.c
                 h == Holders(c, call'.n)
             IN /\ terminals' = terminals
                /\ ret' = IF h # {}
                          THEN Err("DuplicateNodeConnection",
                                   <<CHOOSE j \in h : \A k \in h : j <= k>>)
                          ELSE Err("TerminalIndexOutOfRange",
                                   <<call'.i, TerminalCount(kind[c])>>)]_vars

\* C1 witness: an out-of-range connect of a node the component already holds
\* was answered with DuplicateNodeConnection
C1_Witness ==
    /\ call.op = "connect"
    /\ call.i >= Len(terminals[call.c])
    /\ Holders(call.c, call.n) # {}
    /\ ret.res = "DuplicateNodeConnection"

\* C2: connect(node, i) succeeds exactly when i is below the terminal count,
\* terminal i holds no node and no other terminal of the component holds
\* node; on success terminal i holds node and every other terminal is as
\* before.
C2_ConnectSucceedsExactlyWhen ==
    [][Calls("connect")
          => LET c == call'.c
                 n == call'.n
                 i == call'.i
             IN /\ (ret'.res = "Ok")
                     <=> (/\ i < TerminalCount(kind[c])
                          /\ terminals[c][i + 1] = <<>>
                          /\ OtherHolders(c, n, i) = {})
                /\ ret'.res = "Ok"
                     => /\ terminals'[c][i + 1] = <<n>>
                        /\ Len(terminals'[c]) = Len(terminals[c])
                        /\ \A j \in 1..Len(terminals[c]) :
                              j # i + 1 => terminals'[c][j] = terminals[c][j]
                        /\ \A d \in Components \ {c} : terminals'[d] = terminals[d]]_vars

\* C2 witness: a connect succeeded on a component whose other terminal
\* holds a different node
C2_Witness ==
    /\ call.op = "connect"
    /\ ret.res = "Ok"
    /\ terminals[call.c][call.i + 1] = <<call.n>>
    /\ \E j \in 1..Len(terminals[call.c]) :
          j # call.i + 1 /\ terminals[call.c][j] # <<>>

\* C3: for an in-range i, when another terminal j # i of the component holds
\* node, connect(node, i) fails with DuplicateNodeConnection, whether
\* terminal i is free or holds a different node, and no terminal changes.
C3_DuplicateNodeFirst ==
    [][(/\ Calls("connect")
        /\ call'.i < Len(terminals[call'.c])
        /\ OtherHolders(call'.c, call'.n, call'.i) # {})
          => (ret'.res = "DuplicateNodeConnection" /\ terminals' = terminals)]_vars

\* C3 witness: DuplicateNodeConnection was returned for an in-range terminal
\* that itself holds a different node
C3_Witness ==
    /\ call.op = "connect"
    /\ call.i < Len(terminals[call.c])
    /\ ret.res = "DuplicateNodeConnection"
    /\ OtherHolders(call.c, call.n, call.i) # {}
    /\ terminals[call.c][call.i + 1] \notin {<<>>, <<call.n>>}

\* C4: when terminal i holds node n, connect(m, i) with m held by no other
\* terminal of the component (m = n or not) fails with AlreadyConnected and
\* terminal i still holds n.
C4_AlreadyConnected ==
    [][(/\ Calls("connect")
        /\ call'.i < Len(terminals[call'.c])
        /\ terminals[call'.c][call'.i + 1] # <<>>
        /\ OtherHolders(call'.c, call'.n, call'.i) = {})
          => /\ ret'.res = "AlreadyConnected"
             /\ terminals'[call'.c][call'.i + 1] = terminals[call'.c][call'.i + 1]
             /\ terminals' = terminals]_vars

\* C4 witness: AlreadyConnected was returned to a connect of a node other
\* than the one the terminal holds
C4_Witness ==
    /\ call.op = "connect"
    /\ ret.res = "AlreadyConnected"
    /\ terminals[call.c][call.i + 1] \notin {<<>>, <<call.n>>}

\* C5: disconnect(node) fails with NotConnectedToNode exactly when no
\* terminal of the component holds node; otherwise it succeeds, clears the
\* lowest-index terminal that holds node and leaves every other terminal as
\* it was.
C5_Disconnect ==
    [][Calls("disconnect")
          => LET c == call'.c
                 h == Holders(c, call'.n)
             IN IF h = {}
                THEN ret'.res = "NotConnectedToNode" /\ terminals' = terminals
                ELSE LET low == CHOOSE j \in h : \A k \in h : j <= k IN
                     /\ ret'.res = "Ok"
                     /\ terminals' = [terminals EXCEPT ![c][low + 1] = <<>>]]_vars

\* C5 witness: a disconnect succeeded and left another terminal of the
\* component connected
C5_Witness ==
    /\ call.op = "disconnect"
    /\ ret.res = "Ok"
    /\ Holders(call.c, call.n) = {}
    /\ \E j \in 1..Len(terminals[call.c]) : terminals[call.c][j] # <<>>

\* C6: a switchgear component starts Open; open() succeeds exactly when the
\* position is Closed and moves it to Open, otherwise fails with AlreadyOpen;
\* close() succeeds exactly when the position is Open and moves it to Closed,
\* otherwise fails with AlreadyClosed; successful close and open calls
\* alternate, the first one being a close.
C6_OpenCloseAlternate ==
    /\ \A c \in Components : HasPositionField(kind[c]) => position[c] = "Open"
    /\ [][\A c \in Components : HasPositionField(kind[c]) =>
            /\ (Calls("open") /\ call'.c = c)
                  => IF position[c] = "Closed"
                     THEN /\ ret'.res = "Ok"
                          /\ position'[c] = "Open"
                          /\ lastSwitch[c] = "close"
                     ELSE ret'.res = "AlreadyOpen" /\ position'[c] = position[c]
            /\ (Calls("close") /\ call'.c = c)
                  => IF position[c] = "Open"
                     THEN /\ ret'.res = "Ok"
                          /\ position'[c] = "Closed"
                          /\ lastSwitch[c] \in {"none", "open"}
                     ELSE ret'.res = "AlreadyClosed" /\ position'[c] = position[c]]_vars

\* C6 witness: an open succeeded (after the close that must precede it)
C6_Witness ==
    /\ call.op = "open"
    /\ ret.res = "Ok"
    /\ position[call.c] = "Open"

\* C7: for VoltageTransformer and Transformer, position(), open() and
\* close() fail with NoPositionCapability; for CircuitBreaker, Disconnector,
\* EarthingSwitch and Transformer, update(v) and value() fail with
\* NoMeasurementCapability; in every reachable state, and changing nothing.
C7_CapabilityGating ==
    [][/\ (/\ call'.op \in {"position", "open", "close"}
           /\ kind[call'.c] \in {"VoltageTransformer", "Transformer"})
             => (ret' = Err("NoPositionCapability", <<>>) /\ state' = state)
       /\ (/\ call'.op \in {"update", "value"}
           /\ kind[call'.c] \in {"CircuitBreaker", "Disconnector",
                                 "EarthingSwitch", "Transformer"})
             => (ret' = Err("NoMeasurementCapability", <<>>) /\ state' = state)]_vars

\* C7 witness: a Transformer with a connected terminal refused a close
C7_Witness ==
    /\ call.op = "close"
    /\ kind[call.c] = "Transformer"
    /\ ret.res = "NoPositionCapability"
    /\ \E j \in 1..Len(terminals[call.c]) : terminals[call.c][j] # <<>>

\* C8: on a VoltageTransformer update(x) always succeeds and value() returns
\* the argument of the most recent update, 0.0 when there was none; value()
\* and every operation other than update leave the stored value unchanged.
C8_ValueIsLastUpdate ==
    [][\A c \in Components : kind[c] = "VoltageTransformer" =>
          /\ (Calls("update") /\ call'.c = c) => ret'.res = "Ok"
          /\ (Calls("value") /\ call'.c = c)
                => /\ ret'.res = "Ok"
                   /\ ret'.info = IF lastUpdate[c] = <<>> THEN <<0>> ELSE lastUpdate[c]
          /\ ~(Calls("update") /\ call'.c = c) => measurement'[c] = measurement[c]]_vars

\* C8 witness: value() returned a non-zero value after an update
C8_Witness ==
    /\ call.op = "value"
    /\ kind[call.c] = "VoltageTransformer"
    /\ ret.res = "Ok"
    /\ lastUpdate[call.c] # <<>>
    /\ ret.info # <<0>>

\* the components of a sequence of members
Range(members) == {members[j] : j \in 1..Len(members)}

NoDuplicates(members) ==
    \A j, k \in 1..Len(members) : j # k => members[j] # members[k]

\* C9: add_component(c) fails with DuplicateComponent exactly when c is in
\* the node's members, leaving them unchanged, and otherwise appends c; no
\* node's members ever contain a component twice.
C9_AddComponent ==
    /\ [](\A n \in Nodes : NoDuplicates(children[n]))
    /\ [][Calls("add_component")
            => LET n == call'.n
                   c == call'.c
               IN IF c \in Range(children[n])
                  THEN ret'.res = "DuplicateComponent" /\ children' = children
                  ELSE /\ ret'.res = "Ok"
                       /\ children' = [children EXCEPT ![n] = Append(children[n], c)]]_vars

\* C9 witness: DuplicateComponent was returned by a node with two members
C9_Witness ==
    /\ call.op = "add_component"
    /\ ret.res = "DuplicateComponent"
    /\ Len(children[call.n]) >= 2
    /\ call.c \in Range(children[call.n])

\* members with component c left out, the order kept
Without(members, c) ==
    LET keep(x) == x # c IN SelectSeq(members, keep)

\* C10: remove_component(c) fails with ComponentNotFound exactly when c is
\* not in members; otherwise it removes exactly c and keeps the order of the
\* rest; members always lists the registered components in the order of
\* their most recent successful add.
C10_RemoveComponent ==
    /\ [](\A n \in Nodes :
            /\ Range(children[n]) = {c \in Components : stamp[n][c] > 0}
            /\ \A j, k \in 1..Len(children[n]) :
                  j < k => stamp[n][children[n][j]] < stamp[n][children[n][k]])
    /\ [][Calls("remove_component")
            => LET n == call'.n
                   c == call'.c
               IN IF c \notin Range(children[n])
                  THEN ret'.res = "ComponentNotFound" /\ children' = children
                  ELSE /\ ret'.res = "Ok"
                       /\ Len(children'[n]) = Len(children[n]) - 1
                       /\ children' = [children EXCEPT ![n] = Without(children[n], c)]]_vars

\* C10 witness: a component was removed and the two that remain are listed
\* in the order of their adds, which is not the order of their creation
C10_Witness ==
    /\ call.op = "remove_component"
    /\ ret.res = "Ok"
    /\ Len(children[call.n]) = 2
    /\ children[call.n][1] > children[call.n][2]
    /\ stamp[call.n][children[call.n][1]] > 1

\* the terminal counts as documented
DocumentedCount(k) ==
    CASE k = "CircuitBreaker" -> 2
      [] k = "Disconnector" -> 2
      [] k = "EarthingSwitch" -> 1
      [] k = "VoltageTransformer" -> 1
      [] k = "Transformer" -> 3

\* C11: terminal(i) succeeds exactly when i is below the variant's terminal
\* count (CircuitBreaker 2, Disconnector 2, EarthingSwitch 1,
\* VoltageTransformer 1, Transformer 3) and otherwise fails with
\* TerminalIndexOutOfRange; a component has that many terminals in every
\* reachable state.
C11_TerminalCountFixed ==
    /\ [](\A c \in Components : Len(terminals[c]) = DocumentedCount(kind[c]))
    /\ [][Calls("terminal")
            => IF call'.i < DocumentedCount(kind[call'.c])
               THEN ret'.res = "Ok"
               ELSE ret'.res = "TerminalIndexOutOfRange"]_vars

\* C11 witness: a Transformer with a connected terminal answered terminal(2)
C11_Witness ==
    /\ call.op = "terminal"
    /\ kind[call.c] = "Transformer"
    /\ call.i = 2
    /\ ret.res = "Ok"
    /\ \E j \in 1..Len(terminals[call.c]) : terminals[call.c][j] # <<>>

\* C12: Component.connect and Component.disconnect leave the members of
\* every node as they were, Node.add_component and Node.remove_component
\* leave every terminal as it was, whether they succeed or fail.
C12_RegistriesIndependent ==
    [][/\ call'.op \in {"connect", "disconnect"} => children' = children
       /\ call'.op \in {"add_component", "remove_component"}
             => terminals' = terminals]_vars

\* C12 witness: the component is a member of node 1 without a terminal on
\* it, and has a terminal on node 2 without being a member of it
C12_Witness ==
    \E c \in Components :
        /\ c \in Range(children[1])
        /\ Holders(c, 1) = {}
        /\ Holders(c, 2) # {}
        /\ c \notin Range(children[2])

\* C13: a call that returns an error leaves every terminal, position,
\* measurement and every node's members exactly as before the call.
C13_FailureChangesNothing ==
    [][(call'.op # "none" /\ ret'.res # "Ok") => state' = state]_vars

\* C13 witness: a call failed on a component that is connected and
\* registered
C13_Witness ==
    /\ call.op \in {"connect", "disconnect", "open", "close", "update", "value",
                    "terminal", "add_component", "remove_component"}
    /\ ret.res \notin {"Ok", "Panic"}
    /\ children[1] # <<>>
    /\ \E c \in Components : \E j \in 1..Len(terminals[c]) : terminals[c][j] # <<>>

\* C15: open, close, update and value leave every terminal and every node's
\* members as they were; connect, disconnect, add_component and
\* remove_component leave every position and measurement as they were.
C15_SwitchAndGraphApart ==
    [][/\ call'.op \in {"open", "close", "update", "value"}
             => (terminals' = terminals /\ children' = children)
       /\ call'.op \in {"connect", "disconnect", "add_component", "remove_component"}
             => (position' = position /\ measurement' = measurement)]_vars

\* C15 witness: a connected, registered and closed switch was disconnected
C15_Witness ==
    /\ call.op = "disconnect"
    /\ ret.res = "Ok"
    /\ position[call.c] = "Closed"
    /\ children[1] # <<>>

\* C16: no two terminals of a component hold the same node.
C16_NoNodeTwice ==
    \A c \in Components : \A n \in Nodes : Cardinality(Holders(c, n)) <= 1

\* C16 witness: every terminal of a component with several terminals is
\* connected and a further connect was refused as a duplicate
C16_Witness ==
    /\ call.op = "connect"
    /\ ret.res = "DuplicateNodeConnection"
    /\ Len(terminals[call.c]) >= 2
    /\ \A j \in 1..Len(terminals[call.c]) : terminals[call.c][j] # <<>>

\* C17: after a successful disconnect(node) no terminal of the component
\* holds node; a disconnect(node) that follows at once fails with
\* NotConnectedToNode and a connect(node, i) that follows at once on a free
\* in-range terminal i succeeds.
C17_DisconnectedForGood ==
    /\ []((call.op = "disconnect" /\ ret.res = "Ok") => Holders(call.c, call.n) = {})
    /\ [][(call.op = "disconnect" /\ ret.res = "Ok"
           /\ call'.c = call.c /\ call'.n = call.n)
            => /\ Calls("disconnect") => ret'.res = "NotConnectedToNode"
               /\ (/\ Calls("connect")
                   /\ call'.i < Len(terminals[call.c])
                   /\ terminals[call.c][call'.i + 1] = <<>>) => ret'.res = "Ok"]_vars

\* C17 witness: a Transformer was disconnected from a node, one of its
\* other terminals is still connected
C17_Witness ==
    /\ call.op = "disconnect"
    /\ ret.res = "Ok"
    /\ kind[call.c] = "Transformer"
    /\ \E j, k \in 1..Len(terminals[call.c]) :
          terminals[call.c][j] = <<>> /\ terminals[call.c][k] # <<>>

\* C18: a terminal only changes from unconnected to node n by a successful
\* connect(n, i) on it, or from node n to unconnected by a successful
\* disconnect(n); never from one node to another.
C18_NoDirectRewire ==
    [][\A c \in Components : \A j \in 1..Len(terminals[c]) :
          terminals'[c][j] # terminals[c][j]
            => \/ /\ terminals[c][j] = <<>>
                  /\ Calls("connect") /\ call'.c = c /\ call'.i = j - 1
                  /\ ret'.res = "Ok"
                  /\ terminals'[c][j] = <<call'.n>>
               \/ /\ terminals'[c][j] = <<>>
                  /\ Calls("disconnect") /\ call'.c = c
                  /\ ret'.res = "Ok"
                  /\ terminals[c][j] = <<call'.n>>]_vars

\* C18 witness: the only terminal of a component holds one node and the
\* connect of another node to it was refused
C18_Witness ==
    /\ call.op = "connect"
    /\ ret.res = "AlreadyConnected"
    /\ Len(terminals[call.c]) = 1
    /\ call.i = 0
    /\ terminals[call.c][1] \notin {<<>>, <<call.n>>}

\* C19: connect succeeds on a component whatever the terminals of another
\* component hold, and connect, disconnect, open, close and update on one
\* component leave the terminals, position and measurement of every other
\* component as they were.
C19_ComponentsIndependent ==
    [][/\ \A b \in Components \ {call'.c} :
             /\ terminals'[b] = terminals[b]
             /\ position'[b] = position[b]
             /\ measurement'[b] = measurement[b]
       /\ Calls("connect")
             => ((ret'.res = "Ok")
                   <=> (/\ call'.i < Len(terminals[call'.c])
                        /\ terminals[call'.c][call'.i + 1] = <<>>
                        /\ OtherHolders(call'.c, call'.n, call'.i) = {}))]_vars

\* C19 witness: a node was connected to a component while a terminal of the
\* other component holds it
C19_Witness ==
    /\ call.op = "connect"
    /\ ret.res = "Ok"
    /\ \E b \in Components \ {call.c} : Holders(b, call.n) # {}

\* C14: nodes and components are told apart by identity, not by name.
\* DuplicateNodeConnection is returned only when another terminal holds the
\* very node, disconnect(n) clears no terminal that holds another node, and
\* DuplicateComponent is returned only when the very component is a member;
\* also when every node has the same name and every component has the same
\* name.
C14_IdentityNotName ==
    /\ \A n, m \in Nodes : Node_name(n) = Node_name(m)
    /\ \A c, d \in Components : Component_name(c) = Component_name(d)
    /\ [][/\ (Calls("connect") /\ OtherHolders(call'.c, call'.n, call'.i) = {})
                => ret'.res # "DuplicateNodeConnection"
          /\ Calls("disconnect")
                => \A j \in 1..Len(terminals[call'.c]) :
                      terminals[call'.c][j] # <<call'.n>>
                        => terminals'[call'.c][j] = terminals[call'.c][j]
          /\ (Calls("add_component") /\ call'.c \notin Range(children[call'.n]))
                => ret'.res = "Ok"]_vars

\* C14 witness: two nodes of one name are on two terminals of component 1
\* and two components of one name are members of node 1
C14_Witness ==
    /\ \E n, m \in Nodes :
          /\ n # m
          /\ Node_name(n) = Node_name(m)
          /\ Holders(1, n) # {}
          /\ Holders(1, m) # {}
    /\ \E c, d \in Components :
          /\ c # d
          /\ Component_name(c) = Component_name(d)
          /\ {c, d} \subseteq Range(children[1])

\* the error kinds
ErrorKinds ==
    {"NotConnected", "AlreadyConnected", "TerminalIndexOutOfRange",
     "DuplicateNodeConnection", "NotConnectedToNode", "NoPositionCapability",
     "NoMeasurementCapability", "AlreadyOpen", "AlreadyClosed",
     "DuplicateComponent", "ComponentNotFound"}

\* C20: no call panics: borrow_mut of a cell is never requested while a
\* borrow of that cell is alive, for any call with any arguments in any
\* reachable state, and every call made returned Ok or an error.
C20_NoPanic ==
    /\ ret.res \in {"Ok"} \cup ErrorKinds
    /\ \A c \in Components :
          /\ \A n \in Nodes : \A i \in Indices : ~Panics(connect_borrows(c, n, i))
          /\ \A n \in Nodes : ~Panics(disconnect_borrows(c, n, 0))
          /\ ~Panics(switch_borrows(c))
          /\ ~Panics(update_borrows(c))
          /\ ~Panics(value_borrows(c))
          /\ \A n \in Nodes : ~Panics(add_component_borrows(n, c))
          /\ \A n \in Nodes : ~Panics(remove_component_borrows(n, c))

\* C20 witness: a node was connected again to the terminal that holds it,
\* on a component registered with node 1, and AlreadyConnected came back
C20_Witness ==
    /\ call.op = "connect"
    /\ call.i < Len(terminals[call.c])
    /\ terminals[call.c][call.i + 1] = <<call.n>>
    /\ ret.res = "AlreadyConnected"
    /\ call.c \in Range(children[1])

====
